---------------------------- MODULE Spec2Model ----------------------------
(***************************************************************************)
(* A model of the message codec of Foxy IRCd (src/message.rs,              *)
(* src/message/parse.rs, src/case.rs) and of its database cache            *)
(* (src/db.rs).                                                            *)
(*                                                                         *)
(* Bytes are the integers 0..255.  A slice is a sequence of bytes; a Rust  *)
(* Range<u32> is a record [start, end], zero based and half open.  An      *)
(* Option is a record with a field `some`, a Result or the outcome of a    *)
(* call is a record with a field `kind`: "Ok", "Err", "None" (the          *)
(* parse-failure value) or "Panic" (the call aborts).                      *)
(***************************************************************************)
EXTENDS Integers, Sequences, FiniteSets, TLC

VARIABLES
    build,    \* how the crate was compiled: [debug_assertions : BOOLEAN]
    pc,       \* "ready" | "done" | "reparsed" | "reassembled"
    call,     \* the first call: its operation and its arguments
    ret,      \* the outcome of the first call
    call2,    \* the follow-up call made on the Message of `ret`
    ret2,     \* the outcome of the follow-up call
    cache,    \* Db.cache: for each path, no entry or a cached Option
    files,    \* the filesystem: for each backing directory and path, a file
    task,     \* for each task, the Db call it is in and where it stands
    calls,    \* how many Db calls were made so far
    fs_changes, \* how many times the files were changed from outside
    hist,     \* how far an insert; rehash; get sequence has come
    agreed    \* the datum the first put_into_cache stored, while no insert
              \* or rehash was made

msgvars == <<build, pc, call, ret, call2, ret2>>
dbvars == <<cache, files, task, calls, fs_changes, hist, agreed>>
vars == <<msgvars, dbvars>>

---------------------------------------------------------------------------
(* Byte values named in the source.                                        *)
NUL == 0
LF == 10
CR == 13
SP == 32
BANG == 33
DIGIT0 == 48
DIGIT9 == 57
COLON == 58
AT == 64
LOWER_A == 97
LOWER_Z == 122
CASE_BIT == 32

(* Slices: &s[n..], &s[..n], &s[a..b] with zero-based offsets.             *)
SliceFrom(s, n) == SubSeq(s, n + 1, Len(s))
SliceTo(s, n) == SubSeq(s, 1, n)
Slice(s, a, b) == SubSeq(s, a + 1, b)

(* iter().find(pred).is_some() is written \E i \in 1..Len(s) : pred(s[i]). *)

---------------------------------------------------------------------------
(* src/case.rs                                                             *)

(* b & !0x20 : clear bit 5 of the byte. *)
ClearCaseBit(b) == b - ((b \div CASE_BIT) % 2) * CASE_BIT

upcase_ident(b) == b

upcase_flip(b) ==
    IF \/ (b >= LOWER_A /\ b <= LOWER_Z)
       \/ (b >= LOWER_A - CASE_BIT /\ b <= LOWER_Z - CASE_BIT)
    THEN (IF (b \div CASE_BIT) % 2 = 1 THEN b - CASE_BIT ELSE b + CASE_BIT)
    ELSE b

upcase(b) ==
    IF b >= LOWER_A /\ b <= LOWER_Z THEN ClearCaseBit(b)
    ELSE b

---------------------------------------------------------------------------
(* src/message/parse.rs : questions                                        *)

is_nulcrlf(x) == x = NUL \/ x = CR \/ x = LF
is_nulcrlfspace(x) == x = NUL \/ x = CR \/ x = LF \/ x = SP
is_nulcrlfspaceat(x) == x = NUL \/ x = CR \/ x = LF \/ x = SP \/ x = AT

is_nulcrlfspaceatbang(x) ==
    x = NUL \/ x = CR \/ x = LF \/ x = SP \/ x = AT \/ x = BANG

Valid == [kind |-> "Ok"]
Invalid(reason) == [kind |-> "Err", reason |-> reason]

validate_param_no_colon(param) ==
    IF param = <<>> THEN Invalid("Invalid empty param")
    ELSE IF \E i \in 1..Len(param) : is_nulcrlfspace(param[i])
    THEN Invalid("Invalid byte in param")
    ELSE Valid

validate_param(param) ==
    IF param = <<>> THEN Invalid("Invalid empty param")
    ELSE IF \E i \in 1..Len(param) : is_nulcrlfspace(param[i])
    THEN Invalid("Invalid byte in param")
    ELSE IF param[1] = COLON THEN Invalid("Invalid colon in param")
    ELSE Valid

validate_trailing_param_lax(param) == Valid

validate_trailing_param(param) ==
    IF \E i \in 1..Len(param) : is_nulcrlf(param[i])
    THEN Invalid("Invalid byte in param")
    ELSE Valid

---------------------------------------------------------------------------
(* src/message/parse.rs : parsers                                          *)

RECURSIVE FindSpaceFrom(_, _)
FindSpaceFrom(line, n) ==
    IF n >= Len(line) THEN [some |-> TRUE, idx |-> Len(line)]
    ELSE IF line[n + 1] = CR \/ line[n + 1] = NUL THEN [some |-> FALSE]
    ELSE IF line[n + 1] = SP THEN [some |-> TRUE, idx |-> n]
    ELSE FindSpaceFrom(line, n + 1)

find_idx_of_space_or_end(line) == FindSpaceFrom(line, 0)

RECURSIVE SkipSpaceFrom(_, _)
SkipSpaceFrom(line, n) ==
    IF n >= Len(line) THEN [some |-> TRUE, rest |-> <<>>]
    ELSE IF line[n + 1] = CR \/ line[n + 1] = NUL THEN [some |-> FALSE]
    ELSE IF line[n + 1] = SP THEN SkipSpaceFrom(line, n + 1)
    ELSE [some |-> TRUE, rest |-> SliceFrom(line, n)]

skip_leading_space(line) == SkipSpaceFrom(line, 0)

(* Some((tags, rest)) or None.  The remainder is skip_leading_space of the *)
(* line itself, as the source has it, not of the line from `split` on.     *)
parse_tags(line) ==
    IF line = <<>> \/ line[1] # AT
    THEN [some |-> TRUE, tags |-> [some |-> FALSE], rest |-> line]
    ELSE LET split == find_idx_of_space_or_end(line)
             skipped == skip_leading_space(line)
         IN  IF ~split.some THEN [some |-> FALSE]
             ELSE IF ~skipped.some THEN [some |-> FALSE]
             ELSE [some |-> TRUE,
                   tags |-> [some |-> TRUE, val |-> Slice(line, 1, split.idx)],
                   rest |-> skipped.rest]

(* The three source scanners return kind "Some" with (first, finale,      *)
(* rest), kind "None", or kind "Panic" where the source has unreachable!(). *)
RECURSIVE NameOrNickFrom(_, _)
NameOrNickFrom(line, i) ==
    IF i >= Len(line)
    THEN [kind |-> "Some", first |-> line, finale |-> SP, rest |-> <<>>]
    ELSE IF line[i + 1] = CR \/ line[i + 1] = NUL THEN [kind |-> "None"]
    ELSE IF line[i + 1] = AT \/ line[i + 1] = BANG
    THEN [kind |-> "Some", first |-> SliceTo(line, i), finale |-> line[i + 1],
          rest |-> SliceFrom(line, i + 1)]
    ELSE IF line[i + 1] = SP THEN [kind |-> "Panic"]
    ELSE NameOrNickFrom(line, i + 1)

parse_source_name_or_nick(line) == NameOrNickFrom(line, 0)

RECURSIVE UserFrom(_, _)
UserFrom(line, i) ==
    IF i >= Len(line)
    THEN [kind |-> "Some", first |-> line, finale |-> SP, rest |-> <<>>]
    ELSE IF line[i + 1] = CR \/ line[i + 1] = NUL \/ line[i + 1] = BANG
    THEN [kind |-> "None"]
    ELSE IF line[i + 1] = AT
    THEN [kind |-> "Some", first |-> SliceTo(line, i), finale |-> line[i + 1],
          rest |-> SliceFrom(line, i + 1)]
    ELSE IF line[i + 1] = SP THEN [kind |-> "Panic"]
    ELSE UserFrom(line, i + 1)

parse_source_user_lax(line) ==
    IF \E i \in 1..Len(line) : line[i] = AT
    THEN LET i == CHOOSE k \in 1..Len(line) :
                     line[k] = AT /\ \A j \in 1..(k - 1) : line[j] # AT
         IN  [kind |-> "Some", first |-> SliceTo(line, i - 1), finale |-> AT,
              rest |-> SliceFrom(line, i)]
    ELSE [kind |-> "Some", first |-> line, finale |-> SP, rest |-> <<>>]

parse_source_user(line) == UserFrom(line, 0)

RECURSIVE HostFrom(_, _)
HostFrom(line, i) ==
    IF i >= Len(line) THEN [kind |-> "Some", first |-> line, rest |-> <<>>]
    ELSE IF line[i + 1] = CR \/ line[i + 1] = NUL
            \/ line[i + 1] = BANG \/ line[i + 1] = AT
    THEN [kind |-> "None"]
    ELSE IF line[i + 1] = SP THEN [kind |-> "Panic"]
    ELSE HostFrom(line, i + 1)

parse_source_host(line) == HostFrom(line, 0)

parse_digit(digit) ==
    IF digit >= DIGIT0 /\ digit <= DIGIT9
    THEN [some |-> TRUE, val |-> digit - DIGIT0]
    ELSE [some |-> FALSE]

---------------------------------------------------------------------------
(* src/message.rs : ranges over the buffer                                 *)

Range(s, e) == [start |-> s, end |-> e]

(* Appends `bytes` to `buf`; the new buffer and the Range occupied.        *)
inter_bytes(buf, bytes) ==
    [buf |-> buf \o bytes, range |-> Range(Len(buf), Len(buf) + Len(bytes))]

extract_bytes(buf, range) == Slice(buf, range.start, range.end)

---------------------------------------------------------------------------
(* src/message.rs : Source                                                 *)
(* Option<Source> is NoSource, Server(name) or Client(nick, user, host),   *)
(* where user is NoUser or SomeUser(bytes).                                *)

NoSource == [kind |-> "None"]
Server(name) == [kind |-> "Server", name |-> name]
NoUser == [some |-> FALSE]
SomeUser(user) == [some |-> TRUE, val |-> user]
Client(nick, user, host) ==
    [kind |-> "Client", nick |-> nick, user |-> user, host |-> host]

Source_raw_len(source) ==
    IF source.kind = "Server" THEN Len(source.name) + 2
    ELSE IF ~source.user.some THEN Len(source.nick) + Len(source.host) + 3
    ELSE Len(source.nick) + Len(source.user.val) + Len(source.host) + 4

(* The buffer after the source is written, and its IntSource.              *)
Source_inter(source, buf) ==
    LET b0 == Append(buf, COLON)
    IN  IF source.kind = "Server"
        THEN LET name == inter_bytes(b0, source.name)
             IN  [buf |-> Append(name.buf, SP),
                  int |-> [kind |-> "Server", name |-> name.range]]
        ELSE LET nick == inter_bytes(b0, source.nick)
                 user == IF source.user.some
                         THEN inter_bytes(Append(nick.buf, BANG), source.user.val)
                         ELSE [buf |-> nick.buf, range |-> Range(0, 0)]
                 host == inter_bytes(Append(user.buf, AT), source.host)
             IN  [buf |-> Append(host.buf, SP),
                  int |-> [kind |-> "Client", nick |-> nick.range,
                           user |-> IF source.user.some
                                    THEN [some |-> TRUE, val |-> user.range]
                                    ELSE [some |-> FALSE],
                           host |-> host.range]]

Source_validate_host_first(source) ==
    IF source.kind = "Server"
    THEN IF (\E i \in 1..Len(source.name) : is_nulcrlfspaceatbang(source.name[i]))
         THEN Invalid("invalid character in server prefix")
         ELSE Valid
    ELSE IF (\E i \in 1..Len(source.host) : is_nulcrlfspaceatbang(source.host[i]))
         THEN Invalid("invalid character in client hostname")
         ELSE IF (LET user == IF source.user.some THEN source.user.val ELSE <<>>
                  IN  \E i \in 1..Len(user) : is_nulcrlfspaceatbang(user[i]))
         THEN Invalid("invalid character in client username")
         ELSE IF (\E i \in 1..Len(source.nick) : is_nulcrlfspaceatbang(source.nick[i]))
         THEN Invalid("invalid character in client nickname")
         ELSE Valid

Source_validate(source) ==
    IF source.kind = "Server"
    THEN IF (\E i \in 1..Len(source.name) : is_nulcrlfspaceatbang(source.name[i]))
         THEN Invalid("invalid character in server prefix")
         ELSE Valid
    ELSE IF (\E i \in 1..Len(source.nick) : is_nulcrlfspaceatbang(source.nick[i]))
         THEN Invalid("invalid character in client nickname")
         ELSE IF (LET user == IF source.user.some THEN source.user.val ELSE <<>>
                  IN  \E i \in 1..Len(user) : is_nulcrlfspaceatbang(user[i]))
         THEN Invalid("invalid character in client username")
         ELSE IF (\E i \in 1..Len(source.host) : is_nulcrlfspaceatbang(source.host[i]))
         THEN Invalid("invalid character in client hostname")
         ELSE Valid

IntSource_extract(int, buf) ==
    IF int.kind = "Server" THEN Server(extract_bytes(buf, int.name))
    ELSE Client(extract_bytes(buf, int.nick),
                IF int.user.some THEN SomeUser(extract_bytes(buf, int.user.val))
                ELSE NoUser,
                extract_bytes(buf, int.host))

(* kind "Some" with (source, rest), kind "None", or kind "Panic".          *)
Source_parse(line, dbg) ==
    IF line = <<>> \/ line[1] # COLON
    THEN [kind |-> "Some", source |-> NoSource, rest |-> line]
    ELSE
    LET split == find_idx_of_space_or_end(line) IN
    IF ~split.some THEN [kind |-> "None"] ELSE
    LET rest == skip_leading_space(SliceFrom(line, split.idx)) IN
    IF ~rest.some THEN [kind |-> "None"] ELSE
    LET nn == parse_source_name_or_nick(Slice(line, 1, split.idx)) IN
    IF nn.kind # "Some" THEN [kind |-> nn.kind] ELSE
    IF nn.finale = SP
    THEN IF dbg /\ nn.rest # <<>> THEN [kind |-> "Panic"]
         ELSE [kind |-> "Some", source |-> Server(nn.first), rest |-> rest.rest]
    ELSE
    LET us == IF nn.finale = BANG THEN parse_source_user(nn.rest)
              ELSE [kind |-> "Some", first |-> <<>>, finale |-> nn.finale,
                    rest |-> nn.rest]
    IN
    IF nn.finale # BANG /\ dbg /\ nn.finale # AT THEN [kind |-> "Panic"] ELSE
    IF us.kind # "Some" THEN [kind |-> us.kind] ELSE
    IF us.finale # AT THEN [kind |-> "None"] ELSE
    LET host == parse_source_host(us.rest) IN
    IF host.kind # "Some" THEN [kind |-> host.kind] ELSE
    IF dbg /\ host.rest # <<>> THEN [kind |-> "Panic"] ELSE
    [kind |-> "Some",
     source |-> Client(nn.first,
                       IF nn.finale = BANG THEN SomeUser(us.first) ELSE NoUser,
                       host.first),
     rest |-> rest.rest]

---------------------------------------------------------------------------
(* src/message.rs : Command                                                *)

Numeric(n) == [kind |-> "Numeric", n |-> n]
Textual(bytes) == [kind |-> "Textual", bytes |-> bytes]

Format_unpadded(x) ==
    IF x >= 100
    THEN <<DIGIT0 + (x \div 100), DIGIT0 + ((x \div 10) % 10), DIGIT0 + (x % 10)>>
    ELSE IF x >= 10 THEN <<DIGIT0 + (x \div 10), DIGIT0 + (x % 10)>>
    ELSE <<DIGIT0 + x>>

(* format!("{:03}", x) for a number of at most three digits. *)
Format03(x) ==
    <<DIGIT0 + (x \div 100), DIGIT0 + ((x \div 10) % 10), DIGIT0 + (x % 10)>>

Command_bufferize(command) ==
    IF command.kind = "Numeric"
    THEN IF command.n = 0 \/ command.n > 999
         THEN Invalid("Invalid command number")
         ELSE [kind |-> "Ok", buf |-> Format03(command.n)]
    ELSE IF (\E i \in 1..Len(command.bytes) : is_nulcrlfspace(command.bytes[i]))
         THEN Invalid("invalid character in command name")
         ELSE [kind |-> "Ok",
               buf |-> [i \in 1..Len(command.bytes) |-> upcase(command.bytes[i])]]

(* The buffer after the bufferized command is written, and its IntCommand. *)
Command_inter(command, me_buf, out_buf) ==
    LET w == inter_bytes(out_buf, me_buf)
    IN  [buf |-> w.buf,
         int |-> IF command.kind = "Numeric"
                 THEN [kind |-> "Numeric", n |-> command.n, range |-> w.range]
                 ELSE [kind |-> "Textual", range |-> w.range]]

IntCommand_extract(int, buf) ==
    IF int.kind = "Numeric" THEN Numeric(int.n)
    ELSE Textual(extract_bytes(buf, int.range))

(* Some((command, rest)) or None. *)
Command_parse(line) ==
    IF line = <<>> THEN [some |-> FALSE] ELSE
    LET split == find_idx_of_space_or_end(line) IN
    IF ~split.some THEN [some |-> FALSE] ELSE
    LET rest == skip_leading_space(SliceFrom(line, split.idx)) IN
    IF ~rest.some THEN [some |-> FALSE] ELSE
    LET token == SliceTo(line, split.idx) IN
    IF Len(token) = 3 /\ parse_digit(token[1]).some /\ parse_digit(token[2]).some
       /\ parse_digit(token[3]).some
    THEN [some |-> TRUE,
          command |-> Numeric(parse_digit(token[1]).val * 100
                              + parse_digit(token[2]).val * 10
                              + parse_digit(token[3]).val),
          rest |-> rest.rest]
    ELSE [some |-> TRUE, command |-> Textual(token), rest |-> rest.rest]

---------------------------------------------------------------------------
(* src/message.rs : Message                                                *)

(* u32::to_ne_bytes / u32::from_ne_bytes, for a little-endian target. *)
to_ne_bytes(x) ==
    <<x % 256, (x \div 256) % 256, (x \div 65536) % 256, (x \div 16777216) % 256>>
from_ne_bytes(b) == b[1] + b[2] * 256 + b[3] * 65536 + b[4] * 16777216

RECURSIVE SumLenPlusOne(_)
SumLenPlusOne(params) ==
    IF params = <<>> THEN 0
    ELSE Len(Head(params)) + 1 + SumLenPlusOne(Tail(params))

(* The loop over the parameters of assemble, from parameter n (zero based) *)
(* on: the buffer and the ranges written, or the first validation failure. *)
RECURSIVE WriteParams(_, _, _, _, _)
WriteParams(buf, interred, params, n, trailer) ==
    IF n >= Len(params) THEN [kind |-> "Ok", buf |-> buf, interred |-> interred]
    ELSE
    LET param == params[n + 1]
        last == (n = Len(params) - 1 /\ trailer)
        b1 == IF last THEN Append(Append(buf, SP), COLON) ELSE Append(buf, SP)
        v == IF last THEN validate_trailing_param(param) ELSE validate_param(param)
        w == inter_bytes(b1, param)
    IN  IF v.kind = "Err" THEN v
        ELSE WriteParams(w.buf, Append(interred, w.range), params, n + 1, trailer)

RECURSIVE OffsetTable(_)
OffsetTable(interred) ==
    IF interred = <<>> THEN <<>>
    ELSE to_ne_bytes(Head(interred).start) \o to_ne_bytes(Head(interred).end)
         \o OffsetTable(Tail(interred))

Zeroes(n) == [i \in 1..n |-> 0]

Message_assemble(source, command, params, trailer, dbg) ==
    IF dbg /\ trailer /\ params = <<>>
    THEN [kind |-> "Panic", at |-> "debug_assert"] ELSE
    LET sv == IF source.kind = "None" THEN Valid ELSE Source_validate(source) IN
    IF sv.kind = "Err" THEN sv ELSE
    LET command_buf == Command_bufferize(command) IN
    IF command_buf.kind = "Err" THEN command_buf ELSE
    LET message_len ==
            (IF source.kind = "None" THEN 0 ELSE Source_raw_len(source))
            + Len(command_buf.buf)
            + SumLenPlusOne(params)
            + (IF trailer THEN 3 ELSE 2)
        param_base == ((message_len + 7) \div 8) * 8
        buf_len == param_base + Len(params) * 8
    IN
    (* buf_len.try_into() fails only for a buffer of 4GiB or more, which no *)
    (* call within the bounds of this model comes near.                     *)
    LET s == IF source.kind = "None" THEN [buf |-> <<>>, int |-> NoSource]
             ELSE Source_inter(source, <<>>)
        c == Command_inter(command, command_buf.buf, s.buf)
        ps == WriteParams(c.buf, <<>>, params, 0, trailer)
    IN
    IF ps.kind = "Err" THEN ps ELSE
    LET raw == Append(Append(ps.buf, CR), LF) IN
    IF Len(raw) # message_len THEN [kind |-> "Panic", at |-> "message_len"] ELSE
    LET buf == raw \o Zeroes(param_base - Len(raw)) \o OffsetTable(ps.interred) IN
    IF Len(buf) # buf_len THEN [kind |-> "Panic", at |-> "buf_len"] ELSE
    [kind |-> "Ok",
     msg |-> [buf |-> buf,
              source |-> s.int,
              command |-> c.int,
              param_data_range |-> Range(param_base, buf_len),
              raw_message_len |-> message_len,
              trailer |-> trailer]]

RECURSIVE ParseParams_keep_colon(_, _)
ParseParams_keep_colon(line, params) ==
    IF line = <<>> THEN [some |-> TRUE, params |-> params, trailer |-> FALSE]
    ELSE IF line[1] = COLON
    THEN [some |-> TRUE, params |-> Append(params, line), trailer |-> TRUE]
    ELSE
    LET split == find_idx_of_space_or_end(line) IN
    IF ~split.some THEN [some |-> FALSE] ELSE
    LET rest == skip_leading_space(SliceFrom(line, split.idx)) IN
    IF ~rest.some THEN [some |-> FALSE]
    ELSE ParseParams_keep_colon(rest.rest, Append(params, SliceTo(line, split.idx)))

(* The loop over the parameters of parse: Some((params, trailer)) or None. *)
RECURSIVE ParseParams(_, _)
ParseParams(line, params) ==
    IF line = <<>> THEN [some |-> TRUE, params |-> params, trailer |-> FALSE]
    ELSE IF line[1] = COLON
    THEN [some |-> TRUE, params |-> Append(params, SliceFrom(line, 1)),
          trailer |-> TRUE]
    ELSE
    LET split == find_idx_of_space_or_end(line) IN
    IF ~split.some THEN [some |-> FALSE] ELSE
    LET rest == skip_leading_space(SliceFrom(line, split.idx)) IN
    IF ~rest.some THEN [some |-> FALSE]
    ELSE ParseParams(rest.rest, Append(params, SliceTo(line, split.idx)))

ParseFailure == [kind |-> "None"]

Message_parse(line, dbg) ==
    LET tags == parse_tags(line) IN
    IF ~tags.some THEN ParseFailure ELSE
    LET src == Source_parse(tags.rest, dbg) IN
    IF src.kind = "None" THEN ParseFailure ELSE
    IF src.kind = "Panic" THEN [kind |-> "Panic", at |-> "unreachable"] ELSE
    LET cmd == Command_parse(src.rest) IN
    IF ~cmd.some THEN ParseFailure ELSE
    LET ps == ParseParams(cmd.rest, <<>>) IN
    IF ~ps.some THEN ParseFailure ELSE
    LET a == Message_assemble(src.source, cmd.command, ps.params, ps.trailer, dbg)
    IN  IF a.kind = "Err" THEN [kind |-> "Panic", at |-> "unwrap"] ELSE a

get_raw_whole(m) == m.buf

get_raw(m) == SliceTo(m.buf, m.raw_message_len)

get_source(m) ==
    IF m.source.kind = "None" THEN NoSource
    ELSE IntSource_extract(m.source, m.buf)

get_command(m) == IntCommand_extract(m.command, m.buf)

get_param_count_bytes(m) == m.param_data_range.end - m.param_data_range.start

get_param_count(m) == (m.param_data_range.end - m.param_data_range.start) \div 8

get_nth_param(m, n) ==
    LET param_list == extract_bytes(m.buf, m.param_data_range) IN
    IF n >= Len(param_list) \div 8 THEN [some |-> FALSE]
    ELSE [some |-> TRUE,
          val |-> extract_bytes(m.buf,
                     Range(from_ne_bytes(Slice(param_list, n * 8, n * 8 + 4)),
                           from_ne_bytes(Slice(param_list, n * 8 + 4, n * 8 + 8))))]

has_trailer(m) == m.trailer

(* Every parameter of a Message, in order, as a caller reads them. *)
Params(m) == [i \in 1..get_param_count(m) |-> get_nth_param(m, i - 1).val]

---------------------------------------------------------------------------
(* src/db.rs : Db                                                          *)
(* A datum is an Option<Arc<Value>>: NoDatum or Datum(v).  A cache lookup  *)
(* is an Option of that: Absent or Entry(datum).  A file holds a JSON      *)
(* value or is unusable: missing, unreadable or no JSON, which get_from_fs *)
(* all passes over alike.                                                  *)

NumTasks == 2
MaxCalls == 3
MaxFsChanges == 1

Tasks == 1..NumTasks
(* Two JSON values that differ, one path, and a Db made with two backing   *)
(* directories, searched in this order.                                    *)
Values == {1, 2}
Paths == {"p"}
backing_paths == <<1, 2>>
Backing == 1..Len(backing_paths)
Unusable == [kind |-> "unusable"]
Json(v) == [kind |-> "json", value |-> v]
FileStates == {Unusable} \cup {Json(v) : v \in Values}

NoDatum == [some |-> FALSE]
Datum(v) == [some |-> TRUE, val |-> v]
Absent == [cached |-> FALSE]
Entry(datum) == [cached |-> TRUE, value |-> datum]

(* Db::new : nothing is cached. *)
EmptyCache == [p \in Paths |-> Absent]

get_from_cache(c, path) == c[path]

(* One turn of the loop of get_from_fs: the file of one backing directory  *)
(* satisfies the path, or the loop continues.                              *)
ReadFile(file) ==
    IF file.kind = "json" THEN [satisfied |-> TRUE, value |-> file.value]
    ELSE [satisfied |-> FALSE]

put_into_cache_always(c, path, old_value, new_value) ==
    [cache |-> [c EXCEPT ![path] = Entry(new_value)], ret |-> new_value]

(* The cache after the call, and the datum it returns. *)
put_into_cache(c, path, old_value, new_value) ==
    LET cur_value == c[path] IN
    IF cur_value = old_value
    THEN [cache |-> [c EXCEPT ![path] = Entry(new_value)], ret |-> new_value]
    ELSE [cache |-> c,
          ret |-> IF cur_value.cached THEN cur_value.value ELSE NoDatum]

(* A task between calls. *)
IdleTask ==
    [pc |-> "idle", op |-> "none", path |-> "none", back |-> 0,
     result |-> NoDatum, ret |-> NoDatum,
     win_insert |-> NoDatum, win_rehash |-> FALSE, after_put |-> Absent,
     stale |-> FALSE, stored |-> FALSE, late |-> FALSE]

(* No put_into_cache has stored yet; the first one stored `datum`; an      *)
(* insert or a rehash was made.                                            *)
Open == [state |-> "open"]
Settled(datum) == [state |-> "set", value |-> datum]
Void == [state |-> "void"]

NoHist == [stage |-> "none"]

(* No Db call is under way: the state the codec runs in. *)
DbQuiet ==
    /\ cache = EmptyCache
    /\ files = [b \in Backing |-> [p \in Paths |-> Unusable]]
    /\ task = [t \in Tasks |-> IdleTask]
    /\ calls = 0
    /\ fs_changes = 0
    /\ hist = NoHist
    /\ agreed = Open

OthersIdle(t) == \A u \in Tasks \ {t} : task[u].pc \in {"idle", "done"}

(* A get of `path` by task u stands between its cache miss and its         *)
(* put_into_cache.                                                         *)
InWindow(u, path) ==
    /\ task[u].pc \in {"get_from_fs", "put_into_cache"}
    /\ task[u].path = path

(* Db::get, up to the return of get_from_cache: the read lock is held for  *)
(* the lookup alone.                                                       *)
GetFromCache(t, path) ==
    /\ task[t].pc = "idle"
    /\ calls < MaxCalls
    /\ LET value == get_from_cache(cache, path) IN
       IF value.cached
       THEN /\ task' = [task EXCEPT ![t] =
                           [@ EXCEPT !.pc = "done", !.op = "get",
                                     !.path = path, !.ret = value.value]]
            /\ hist' = IF hist.stage = "rehashed" /\ hist.path = path
                          /\ OthersIdle(t)
                       THEN [hist EXCEPT !.stage = "got", !.task = t]
                       ELSE NoHist
       ELSE /\ task' = [task EXCEPT ![t] =
                           [@ EXCEPT !.pc = "get_from_fs", !.op = "get",
                                     !.path = path, !.back = 1,
                                     !.late = (agreed.state = "set")]]
            /\ hist' = IF hist.stage = "rehashed" /\ hist.path = path
                          /\ OthersIdle(t)
                       THEN [hist EXCEPT !.stage = "getting", !.task = t]
                       ELSE NoHist
    /\ calls' = calls + 1
    /\ UNCHANGED <<cache, files, fs_changes, agreed>>

(* Db::get_from_fs, one backing directory at a time; no lock is held. *)
GetFromFs(t) ==
    /\ task[t].pc = "get_from_fs"
    /\ LET r == ReadFile(files[backing_paths[task[t].back]][task[t].path]) IN
       task' = [task EXCEPT ![t] =
                   IF r.satisfied
                   THEN [@ EXCEPT !.pc = "put_into_cache",
                                  !.result = Datum(r.value)]
                   ELSE IF task[t].back < Len(backing_paths)
                   THEN [@ EXCEPT !.back = @ + 1]
                   ELSE [@ EXCEPT !.pc = "put_into_cache", !.result = NoDatum]]
    /\ hist' = IF hist.stage = "getting" /\ hist.task = t THEN hist ELSE NoHist
    /\ UNCHANGED <<cache, files, calls, fs_changes, agreed>>

(* Db::get, from put_into_cache to the return: the write lock is held for  *)
(* the whole of put_into_cache.                                            *)
PutIntoCache(t) ==
    /\ task[t].pc = "put_into_cache"
    /\ LET r == put_into_cache(cache, task[t].path, Absent, task[t].result) IN
       /\ cache' = r.cache
       /\ task' = [task EXCEPT ![t] =
                      [@ EXCEPT !.pc = "done", !.ret = r.ret,
                                !.after_put = r.cache[task[t].path],
                                !.stored = (r.cache # cache)]]
       /\ agreed' = IF agreed.state = "open" /\ r.cache # cache
                    THEN Settled(task[t].result)
                    ELSE agreed
    /\ hist' = IF hist.stage = "getting" /\ hist.task = t
               THEN [hist EXCEPT !.stage = "got"]
               ELSE NoHist
    /\ UNCHANGED <<files, calls, fs_changes>>

(* Db::insert: the write lock is held for the whole body. *)
Insert(t, path, datum) ==
    /\ task[t].pc = "idle"
    /\ calls < MaxCalls
    /\ cache' = [cache EXCEPT ![path] = Entry(Datum(datum))]
    /\ task' = [u \in Tasks |->
                   IF u = t
                   THEN [task[u] EXCEPT !.pc = "done", !.op = "insert",
                                        !.path = path]
                   ELSE IF InWindow(u, path)
                   THEN [task[u] EXCEPT !.win_insert = Datum(datum)]
                   ELSE task[u]]
    /\ hist' = IF OthersIdle(t)
               THEN [stage |-> "inserted", path |-> path, datum |-> datum,
                     task |-> t]
               ELSE NoHist
    /\ calls' = calls + 1
    /\ agreed' = Void
    /\ UNCHANGED <<files, fs_changes>>

(* Db::rehash: the write lock is held for the whole body. *)
Rehash(t) ==
    /\ task[t].pc = "idle"
    /\ calls < MaxCalls
    /\ cache' = [p \in Paths |-> Absent]
    /\ task' = [u \in Tasks |->
                   IF u = t
                   THEN [task[u] EXCEPT !.pc = "done", !.op = "rehash"]
                   ELSE IF task[u].pc \in {"get_from_fs", "put_into_cache"}
                   THEN [task[u] EXCEPT !.win_rehash = TRUE,
                                        !.stale = (task[u].pc = "put_into_cache")]
                   ELSE task[u]]
    /\ hist' = IF hist.stage = "inserted" /\ OthersIdle(t)
               THEN [hist EXCEPT !.stage = "rehashed"]
               ELSE NoHist
    /\ calls' = calls + 1
    /\ agreed' = Void
    /\ UNCHANGED <<files, fs_changes>>

(* The call of a task returns to its caller. *)
Return(t) ==
    /\ task[t].pc = "done"
    /\ task' = [task EXCEPT ![t] = IdleTask]
    /\ hist' = IF hist.stage = "got" THEN NoHist ELSE hist
    /\ UNCHANGED <<cache, files, calls, fs_changes, agreed>>

(* Something outside the program writes, spoils or removes a backing file. *)
FsChange(back, path, file) ==
    /\ fs_changes < MaxFsChanges
    /\ files[back][path] # file
    /\ files' = [files EXCEPT ![back][path] = file]
    /\ fs_changes' = fs_changes + 1
    /\ hist' = NoHist
    /\ UNCHANGED <<cache, task, calls, agreed>>

---------------------------------------------------------------------------
(* The calls made on the codec.                                            *)

MaxLineLen == 4
MaxFieldLen == 1
MaxCmdLen == 3
MaxParams == 2
MaxParamBytes == 3
MaxNumeric == 1000
MaxMixLen == 1
MaxPrefixLen == 5
MaxTailLen == 3
MaxParamLineLen == 5

(* The alphabets the arguments are drawn from: every byte the source names, *)
(* two digits and a letter for lines and commands; the bytes the relevant   *)
(* validation names and a letter for source fields and for parameters.      *)
Bytes == {NUL, LF, CR, SP, BANG, DIGIT0, DIGIT0 + 1, COLON, AT, LOWER_A}
FieldBytes == {NUL, LF, CR, SP, BANG, AT, LOWER_A}
ParamBytes == {NUL, LF, CR, SP, COLON, LOWER_A}
MixBytes == {SP, LOWER_A}
PrefixBytes == {BANG, AT, LOWER_A}
TailBytes == {SP, COLON, LOWER_A}

Str(alphabet, n) == UNION {[1..k -> alphabet] : k \in 0..n}

AssembleCall(source, command, params, trailer) ==
    [op |-> "assemble", source |-> source, command |-> command,
     params |-> params, trailer |-> trailer]
ParseCall(line) == [op |-> "parse", line |-> line]
NoCall == [op |-> "none"]
Pending == [kind |-> "Pending"]

CtxSources == {NoSource, Server(<<LOWER_A>>)}
CtxCommands == {Numeric(1), Textual(<<LOWER_A>>)}
CtxParams == {<<>>, << <<LOWER_A>> >>}

(* c is an assemble call with the given command, parameters and trailer    *)
(* flag and no source or any source with fields in `fields`.               *)
WithAnySource(c, fields, cmd, p, t) ==
    \/ c = AssembleCall(NoSource, cmd, p, t)
    \/ \E name \in fields : c = AssembleCall(Server(name), cmd, p, t)
    \/ \E nick \in fields, host \in fields :
          \/ c = AssembleCall(Client(nick, NoUser, host), cmd, p, t)
          \/ \E user \in fields :
                c = AssembleCall(Client(nick, SomeUser(user), host), cmd, p, t)

(* s cut into Len(cuts) + 1 consecutive pieces at the offsets `cuts`.      *)
SplitAt(s, cuts) ==
    [i \in 1..(Len(cuts) + 1) |->
        SubSeq(s, (IF i = 1 THEN 0 ELSE cuts[i - 1]) + 1,
                  IF i = Len(cuts) + 1 THEN Len(s) ELSE cuts[i])]

(* Every line of at most MaxLineLen bytes; the caller skips empty lines.   *)
ParseCalls(c) ==
    \E line \in Str(Bytes, MaxLineLen) \ {<<>>} : c = ParseCall(line)

(* Every line made of ':', a prefix token of at most MaxPrefixLen bytes, a  *)
(* space and at most MaxTailLen further bytes.                             *)
PrefixedLineCalls(c) ==
    \E prefix \in Str(PrefixBytes, MaxPrefixLen),
       tail \in Str(TailBytes, MaxTailLen) :
        c = ParseCall(<<COLON>> \o prefix \o <<SP>> \o tail)

(* Every line made of a command, a space and at most MaxParamLineLen       *)
(* further bytes: the parameters.                                          *)
ParamLineCalls(c) ==
    \E tail \in Str(TailBytes, MaxParamLineLen) :
        c = ParseCall(<<LOWER_A, SP>> \o tail)

(* Every source with fields of at most MaxFieldLen bytes. *)
SourceCalls(c) ==
    \E cmd \in CtxCommands :
        WithAnySource(c, Str(FieldBytes, MaxFieldLen), cmd,
                      << <<LOWER_A>> >>, TRUE)

(* Every command: textual of at most MaxCmdLen bytes, numeric up to        *)
(* MaxNumeric.                                                             *)
CommandCalls(c) ==
    \/ \E s \in CtxSources, b \in Str(Bytes, MaxCmdLen), p \in CtxParams :
           c = AssembleCall(s, Textual(b), p, p # <<>>)
    \/ \E s \in CtxSources, n \in 0..MaxNumeric :
           c = AssembleCall(s, Numeric(n), <<>>, FALSE)

(* Every list of at most MaxParams parameters of at most MaxParamBytes     *)
(* bytes in all, with and without a trailer.                               *)
ParamCalls(c) ==
    \E t \in BOOLEAN :
        \/ c = AssembleCall(NoSource, Numeric(1), <<>>, t)
        \/ \E s \in Str(ParamBytes, MaxParamBytes), k \in 1..MaxParams :
              \E cuts \in [1..(k - 1) -> 0..Len(s)] :
                  /\ \A i \in 1..(k - 2) : cuts[i] <= cuts[i + 1]
                  /\ c = AssembleCall(NoSource, Numeric(1), SplitAt(s, cuts), t)

(* Every byte value: as a command, as a parameter and as a line.           *)
ByteCalls(c) ==
    \E b \in 0..255 :
        \/ c = AssembleCall(NoSource, Textual(<<b>>), <<>>, FALSE)
        \/ c = AssembleCall(Server(<<LOWER_A>>), Textual(<<b, b>>),
                            << <<b>> >>, TRUE)
        \/ c = AssembleCall(NoSource, Numeric(1),
                            << <<b>>, <<LOWER_A, b>> >>, FALSE)
        \/ c = ParseCall(<<b>>)

(* Every combination of a source, a command and at most one parameter,     *)
(* each field of at most MaxMixLen bytes.                                  *)
MixCalls(c) ==
    \E cmd \in {Numeric(0), Numeric(1)}
               \cup {Textual(b) : b \in Str(MixBytes, MaxMixLen)},
       p \in {<<>>} \cup {<<x>> : x \in Str(MixBytes, MaxMixLen)},
       t \in BOOLEAN :
        WithAnySource(c, Str(MixBytes, MaxMixLen), cmd, p, t)

---------------------------------------------------------------------------
(* The state machine: one call of assemble or parse, then, on the Message  *)
(* it returned, either a parse of its raw bytes or an assemble of its      *)
(* parts.                                                                  *)

StripCrLf(raw) == SliceTo(raw, Len(raw) - 2)

Init ==
    /\ build \in [debug_assertions : BOOLEAN]
    /\ pc = "ready"
    /\ \/ ParseCalls(call)
       \/ PrefixedLineCalls(call)
       \/ ParamLineCalls(call)
       \/ SourceCalls(call)
       \/ CommandCalls(call)
       \/ ParamCalls(call)
       \/ ByteCalls(call)
       \/ MixCalls(call)
    /\ ret = Pending
    /\ call2 = NoCall
    /\ ret2 = Pending
    /\ DbQuiet

Assemble ==
    /\ pc = "ready"
    /\ call.op = "assemble"
    /\ ret' = Message_assemble(call.source, call.command, call.params,
                               call.trailer, build.debug_assertions)
    /\ pc' = "done"
    /\ UNCHANGED <<build, call, call2, ret2>>
    /\ UNCHANGED dbvars

Parse ==
    /\ pc = "ready"
    /\ call.op = "parse"
    /\ ret' = Message_parse(call.line, build.debug_assertions)
    /\ pc' = "done"
    /\ UNCHANGED <<build, call, call2, ret2>>
    /\ UNCHANGED dbvars

(* The caller of parse skips an empty line (message.rs:308-310). *)
Reparse ==
    /\ pc = "done"
    /\ ret.kind = "Ok"
    /\ StripCrLf(get_raw(ret.msg)) # <<>>
    /\ call2' = ParseCall(StripCrLf(get_raw(ret.msg)))
    /\ ret2' = Message_parse(call2'.line, build.debug_assertions)
    /\ pc' = "reparsed"
    /\ UNCHANGED <<build, call, ret>>
    /\ UNCHANGED dbvars

Reassemble ==
    /\ pc = "done"
    /\ ret.kind = "Ok"
    /\ call2' = AssembleCall(get_source(ret.msg), get_command(ret.msg),
                             Params(ret.msg), has_trailer(ret.msg))
    /\ ret2' = Message_assemble(call2'.source, call2'.command, call2'.params,
                                call2'.trailer, build.debug_assertions)
    /\ pc' = "reassembled"
    /\ UNCHANGED <<build, call, ret>>
    /\ UNCHANGED dbvars

Next == Assemble \/ Parse \/ Reparse \/ Reassemble

Spec == Init /\ [][Next]_vars

---------------------------------------------------------------------------
(* The database: tasks that call get, insert and rehash on one Db, each    *)
(* call running up to its next lock or file access at a time, beside a     *)
(* filesystem that changes under it.  No codec call is made.               *)

DbInit ==
    /\ build = [debug_assertions |-> FALSE]
    /\ pc = "ready"
    /\ call = NoCall
    /\ ret = Pending
    /\ call2 = NoCall
    /\ ret2 = Pending
    /\ cache = EmptyCache
    /\ files \in [Backing -> [Paths -> FileStates]]
    /\ task = [t \in Tasks |-> IdleTask]
    /\ calls = 0
    /\ fs_changes = 0
    /\ hist = NoHist
    /\ agreed = Open

DbNext ==
    \/ \E t \in Tasks, path \in Paths : GetFromCache(t, path) /\ UNCHANGED msgvars
    \/ \E t \in Tasks : GetFromFs(t) /\ UNCHANGED msgvars
    \/ \E t \in Tasks : PutIntoCache(t) /\ UNCHANGED msgvars
    \/ \E t \in Tasks, path \in Paths, datum \in Values :
           Insert(t, path, datum) /\ UNCHANGED msgvars
    \/ \E t \in Tasks : Rehash(t) /\ UNCHANGED msgvars
    \/ \E t \in Tasks : Return(t) /\ UNCHANGED msgvars
    \/ \E back \in Backing, path \in Paths, file \in FileStates :
           FsChange(back, path, file) /\ UNCHANGED msgvars

DbSpec == DbInit /\ [][DbNext]_vars

---------------------------------------------------------------------------
(* Vocabulary of the properties, stated without the operators they check.  *)

(* The parts of a Message a caller can read agree. *)
SameParts(m1, m2) ==
    /\ get_source(m1) = get_source(m2)
    /\ get_command(m1) = get_command(m2)
    /\ has_trailer(m1) = has_trailer(m2)
    /\ get_param_count(m1) = get_param_count(m2)
    /\ Params(m1) = Params(m2)

IsLower(b) == b \in 97..122
(* 'a'..'z' replaced by 'A'..'Z', every other byte unchanged. *)
AsciiUpper(bytes) ==
    [i \in 1..Len(bytes) |-> IF IsLower(bytes[i]) THEN bytes[i] - 32 ELSE bytes[i]]

(* The longest prefix of s that holds no space. *)
FirstToken(s) ==
    SliceTo(s, CHOOSE k \in 0..Len(s) :
                  /\ \A i \in 1..k : s[i] # 32
                  /\ (k = Len(s) \/ s[k + 1] = 32))
(* s without the spaces it begins with. *)
AfterSpaces(s) ==
    SliceFrom(s, CHOOSE k \in 0..Len(s) :
                    /\ \A i \in 1..k : s[i] = 32
                    /\ (k = Len(s) \/ s[k + 1] # 32))

Assembled == pc = "done" /\ call.op = "assemble"
Parsed == pc = "done" /\ call.op = "parse"

(* The command Command::parse hands to Message::parse for this line. *)
CommandToken(line) ==
    Command_parse(Source_parse(parse_tags(line).rest, FALSE).rest).command

(* Number of bytes of get_raw() before the command token. *)
SourcePrefixLen(source) ==
    IF source.kind = "None" THEN 0
    ELSE IF source.kind = "Server" THEN Len(source.name) + 2
    ELSE Len(source.nick) + Len(source.host) + 3
         + (IF source.user.some THEN Len(source.user.val) + 1 ELSE 0)

---------------------------------------------------------------------------
(* C1: every Message that assemble returns parses back, from its raw bytes *)
(* without the final CR LF, to a Message with the same source, command,    *)
(* trailer flag, parameter count and parameters.                           *)
C1_RoundTrip ==
    (pc = "reparsed" /\ call.op = "assemble")
        => (ret2.kind = "Ok" /\ SameParts(ret.msg, ret2.msg))

(* C2: parse is total: on every line it returns a Message or the           *)
(* parse-failure value None, and never aborts.                             *)
C2_ParseTotal == Parsed => ret.kind \in {"Ok", "None"}

(* C3: assemble with trailer = true and no parameters returns an Err, for  *)
(* every source and command; it neither aborts nor returns a Message.      *)
C3_TrailerWithoutParams ==
    (Assembled /\ call.trailer /\ call.params = <<>>) => ret.kind = "Err"

(* C4: a line that begins with '@' is parsed as the remainder that follows *)
(* the tag token and its separating spaces; the tag is discarded.          *)
C4_TagsSkipped ==
    (Parsed /\ call.line[1] = 64 /\ ret.kind = "Ok")
        => LET remainder == AfterSpaces(SliceFrom(call.line,
                                                  Len(FirstToken(call.line))))
               r == Message_parse(remainder, build.debug_assertions)
           IN  r.kind = "Ok" /\ SameParts(ret.msg, r.msg)

(* C5 as stated: parse does not fold case; a textual command token comes   *)
(* back from get_command() byte for byte as it stood in the line.          *)
C5_ParseKeepsCase ==
    (Parsed /\ ret.kind = "Ok" /\ CommandToken(call.line).kind = "Textual")
        => get_command(ret.msg) = CommandToken(call.line)

(* C5 as amended: parse folds case as assemble does; a textual command     *)
(* token comes back from get_command() with 'a'..'z' replaced by 'A'..'Z'. *)
C5_ParseFoldsCase ==
    (Parsed /\ ret.kind = "Ok" /\ CommandToken(call.line).kind = "Textual")
        => get_command(ret.msg)
               = Textual(AsciiUpper(CommandToken(call.line).bytes))

C5_Witness ==
    /\ Parsed /\ ret.kind = "Ok"
    /\ CommandToken(call.line).kind = "Textual"
    /\ \E i \in 1..Len(CommandToken(call.line).bytes) :
           IsLower(CommandToken(call.line).bytes[i])
    /\ get_param_count(ret.msg) > 0

(* C6: for a Textual command that assemble accepts, get_command() is the   *)
(* input with 'a'..'z' replaced by 'A'..'Z', exactly those bytes are the   *)
(* command token of get_raw(), and no Message has a lowercase byte in its  *)
(* textual command.                                                        *)
C6_AssembleFoldsCase ==
    /\ (Assembled /\ ret.kind = "Ok" /\ call.command.kind = "Textual")
        => /\ get_command(ret.msg) = Textual(AsciiUpper(call.command.bytes))
           /\ FirstToken(SliceFrom(StripCrLf(get_raw(ret.msg)),
                                   SourcePrefixLen(call.source)))
                  = AsciiUpper(call.command.bytes)
    /\ \A r \in {ret, ret2} :
           (r.kind = "Ok" /\ get_command(r.msg).kind = "Textual")
               => \A i \in 1..Len(get_command(r.msg).bytes) :
                      ~IsLower(get_command(r.msg).bytes[i])

C6_Witness ==
    /\ Assembled /\ ret.kind = "Ok"
    /\ call.command.kind = "Textual"
    /\ call.source.kind = "Server"
    /\ \E i \in 1..Len(call.command.bytes) : IsLower(call.command.bytes[i])
    /\ \E i \in 1..Len(call.command.bytes) : ~IsLower(call.command.bytes[i])

(* C7: two Messages with equal get_raw() bytes have equal source, command, *)
(* trailer flag, parameter count and parameters.                           *)
C7_RawIsIdentity ==
    (ret.kind = "Ok" /\ ret2.kind = "Ok"
     /\ get_raw(ret.msg) = get_raw(ret2.msg))
        => SameParts(ret.msg, ret2.msg)

(* C8: the command of every Message is non-empty: assemble fails for       *)
(* Textual of no bytes, and parse returns no Message with an empty command *)
(* token.                                                                  *)
C8_CommandNonEmpty ==
    /\ (Assembled /\ call.command = Textual(<<>>)) => ret.kind = "Err"
    /\ (Parsed /\ ret.kind = "Ok")
           => ret.msg.command.range.end > ret.msg.command.range.start

(* C9: the raw bytes of every Message end in CR LF, and assembling the     *)
(* source, command, parameters and trailer flag read from it succeeds and  *)
(* gives the same raw bytes.                                               *)
C9_Reassembly ==
    /\ ret.kind = "Ok"
        => /\ Len(get_raw(ret.msg)) >= 2
           /\ SliceFrom(get_raw(ret.msg), Len(get_raw(ret.msg)) - 2) = <<13, 10>>
    /\ pc = "reassembled"
        => /\ ret2.kind = "Ok"
           /\ get_raw(ret2.msg) = get_raw(ret.msg)

C9_Witness ==
    /\ pc = "reassembled"
    /\ ret2.kind = "Ok"
    /\ get_source(ret.msg).kind = "Client"
    /\ get_command(ret.msg).kind = "Textual"
    /\ get_param_count(ret.msg) > 0

(* C10: a parameter other than the trailer makes assemble fail exactly     *)
(* when it is empty, holds NUL, CR, LF or space, or begins with ':'; the   *)
(* trailer (the last parameter when trailer = true) exactly when it holds  *)
(* NUL, CR or LF.                                                          *)
BadMiddle(p) ==
    p = <<>> \/ (\E i \in 1..Len(p) : p[i] \in {0, 13, 10, 32}) \/ p[1] = 58
BadTrailing(p) == \E i \in 1..Len(p) : p[i] \in {0, 13, 10}
BadParam(c, i) ==
    IF i = Len(c.params) /\ c.trailer THEN BadTrailing(c.params[i])
    ELSE BadMiddle(c.params[i])
OthersValid(c) ==
    /\ c.source.kind # "None" => Source_validate(c.source).kind = "Ok"
    /\ Command_bufferize(c.command).kind = "Ok"

C10_ParamValidation ==
    (Assembled /\ call.params # <<>>)
        => /\ (\E i \in 1..Len(call.params) : BadParam(call, i))
                  => ret.kind = "Err"
           /\ ((\E i \in 1..Len(call.params) : BadParam(call, i)) /\ OthersValid(call))
                  => ret.reason \in {"Invalid empty param", "Invalid byte in param",
                                     "Invalid colon in param"}
           /\ ((\A i \in 1..Len(call.params) : ~BadParam(call, i)) /\ OthersValid(call))
                  => ret.kind = "Ok"

C10_Witness ==
    /\ Assembled /\ ret.kind = "Ok"
    /\ Len(call.params) = 2 /\ call.trailer
    /\ Len(call.params[1]) = 2 /\ call.params[1][2] = 58
    /\ call.params[2] = <<58>>


---------------------------------------------------------------------------
(* Further vocabulary of the properties.                                   *)

HasAny(s, set) == \E i \in 1..Len(s) : s[i] \in set

(* The fields of a source, in the order server name; nickname, username,   *)
(* hostname, each with the reason a failure on it carries.                 *)
SourceFields(source) ==
    IF source.kind = "None" THEN <<>>
    ELSE IF source.kind = "Server"
    THEN << [bytes |-> source.name,
             reason |-> "invalid character in server prefix"] >>
    ELSE << [bytes |-> source.nick,
             reason |-> "invalid character in client nickname"],
            [bytes |-> IF source.user.some THEN source.user.val ELSE <<>>,
             reason |-> "invalid character in client username"],
            [bytes |-> source.host,
             reason |-> "invalid character in client hostname"] >>

SourceDelimiters == {0, 13, 10, 32, 64, 33}

BadField(f) == HasAny(f.bytes, SourceDelimiters)
BadSource(source) ==
    \E i \in 1..Len(SourceFields(source)) : BadField(SourceFields(source)[i])
SourceReasons ==
    {"invalid character in server prefix", "invalid character in client nickname",
     "invalid character in client username", "invalid character in client hostname"}

BadCommand(command) ==
    IF command.kind = "Numeric" THEN command.n < 1 \/ command.n > 999
    ELSE HasAny(command.bytes, {0, 13, 10, 32})

(* The call sets the trailer flag with no parameter to carry it. *)
TrailerMisuse(c) == c.trailer /\ c.params = <<>>

(* t is n written as three decimal digits. *)
IsPadded(t, n) ==
    /\ Len(t) = 3
    /\ \A i \in 1..3 : t[i] \in 48..57
    /\ (t[1] - 48) * 100 + (t[2] - 48) * 10 + (t[3] - 48) = n

(* The command token of the raw bytes of the Message that `c` produced. *)
RawCommandToken(c, m) ==
    FirstToken(SliceFrom(StripCrLf(get_raw(m)), SourcePrefixLen(c.source)))

---------------------------------------------------------------------------
(* C11: assemble produces no Message when a field of the source holds NUL, *)
(* CR, LF, space, '@' or '!': it returns an Err with the reason of a       *)
(* source field (or aborts on the trailer assertion of a debug build); and *)
(* Source::validate accepts a source exactly when no field holds one of    *)
(* those six bytes.                                                        *)
C11_SourceValidation ==
    (Assembled /\ call.source.kind # "None")
        => /\ BadSource(call.source)
                => /\ ret.kind \in {"Err", "Panic"}
                   /\ ret.kind = "Err" => ret.reason \in SourceReasons
                   /\ ret.kind = "Panic"
                          => (build.debug_assertions /\ TrailerMisuse(call))
           /\ ~BadSource(call.source)
                => (ret.kind = "Err" => ret.reason \notin SourceReasons)
           /\ (Source_validate(call.source).kind = "Ok")
                  <=> ~BadSource(call.source)

C11_Witness ==
    /\ Assembled
    /\ call.source.kind = "Client" /\ call.source.user.some
    /\ call.source.nick = <<97>> /\ call.source.user.val = <<33>>
    /\ call.source.host = <<97>>
    /\ ret = [kind |-> "Err", reason |-> "invalid character in client username"]

(* C12: with a valid source and valid parameters, assemble of Numeric(n)   *)
(* succeeds exactly when 1 <= n <= 999; the command token of the raw bytes *)
(* is then n as three decimal digits, zero padded, and get_command() is    *)
(* Numeric(n); for n = 0 and n >= 1000 it returns an Err.                  *)
C12_NumericEncoding ==
    (Assembled /\ call.command.kind = "Numeric")
        => /\ (call.command.n < 1 \/ call.command.n > 999)
                => /\ ret.kind # "Ok"
                   /\ ~TrailerMisuse(call) => ret.kind = "Err"
                   /\ (~TrailerMisuse(call) /\ ~BadSource(call.source))
                          => ret = [kind |-> "Err",
                                    reason |-> "Invalid command number"]
           /\ (/\ call.command.n >= 1 /\ call.command.n <= 999
               /\ ~BadSource(call.source) /\ ~TrailerMisuse(call)
               /\ \A i \in 1..Len(call.params) : ~BadParam(call, i))
                => /\ ret.kind = "Ok"
                   /\ get_command(ret.msg) = call.command
                   /\ IsPadded(RawCommandToken(call, ret.msg), call.command.n)
           /\ ret.kind = "Ok" => (call.command.n >= 1 /\ call.command.n <= 999)

C12_Witness ==
    /\ Assembled /\ ret.kind = "Ok"
    /\ call.command = [kind |-> "Numeric", n |-> 5]
    /\ call.source.kind = "Server"
    /\ RawCommandToken(call, ret.msg) = <<48, 48, 53>>

(* C13: the raw bytes of an assembled Message are the source encoding, the *)
(* folded command, each parameter after one space (the last after ' :'     *)
(* when trailer = true), then CR LF, and nothing else.                     *)
SourceWire(source) ==
    IF source.kind = "None" THEN <<>>
    ELSE IF source.kind = "Server" THEN <<58>> \o source.name \o <<32>>
    ELSE <<58>> \o source.nick
         \o (IF source.user.some THEN <<33>> \o source.user.val ELSE <<>>)
         \o <<64>> \o source.host \o <<32>>

CommandWire(command) ==
    IF command.kind = "Numeric"
    THEN <<48 + (command.n \div 100), 48 + ((command.n \div 10) % 10),
           48 + (command.n % 10)>>
    ELSE AsciiUpper(command.bytes)

RECURSIVE ParamsWire(_, _, _)
ParamsWire(params, i, trailer) ==
    IF i > Len(params) THEN <<>>
    ELSE <<32>> \o (IF i = Len(params) /\ trailer THEN <<58>> ELSE <<>>)
         \o params[i] \o ParamsWire(params, i + 1, trailer)

WireOf(c) ==
    SourceWire(c.source) \o CommandWire(c.command)
    \o ParamsWire(c.params, 1, c.trailer) \o <<13, 10>>

C13_WireLayout ==
    (Assembled /\ ret.kind = "Ok") => get_raw(ret.msg) = WireOf(call)

C13_Witness ==
    /\ Assembled /\ ret.kind = "Ok"
    /\ call.source.kind = "Client" /\ call.source.user.some
    /\ call.trailer /\ Len(call.params) >= 1
    /\ Len(ret.msg.buf) > Len(get_raw(ret.msg))

(* C14: the parameters of a parsed Message are the space-separated tokens  *)
(* after the command, up to the first token that begins with ':'; the rest *)
(* of the line after that colon is the last parameter and sets the trailer *)
(* flag; no other parameter is empty.                                      *)
RECURSIVE SplitParams(_)
SplitParams(s) ==
    IF s = <<>> THEN [params |-> <<>>, trailer |-> FALSE]
    ELSE IF s[1] = 58 THEN [params |-> <<SliceFrom(s, 1)>>, trailer |-> TRUE]
    ELSE LET t == FirstToken(s)
             r == SplitParams(AfterSpaces(SliceFrom(s, Len(t))))
         IN  [params |-> <<t>> \o r.params, trailer |-> r.trailer]

(* What follows the command token and its spaces in this line. *)
CommandRest(line) ==
    Command_parse(Source_parse(parse_tags(line).rest, FALSE).rest).rest

C14_ParamParsing ==
    (Parsed /\ ret.kind = "Ok")
        => LET e == SplitParams(CommandRest(call.line))
               k == get_param_count(ret.msg)
           IN  /\ Params(ret.msg) = e.params
               /\ has_trailer(ret.msg) = e.trailer
               /\ \A i \in 1..k :
                      (i < k \/ ~has_trailer(ret.msg))
                          => get_nth_param(ret.msg, i - 1).val # <<>>

C14_Witness ==
    /\ Parsed /\ ret.kind = "Ok"
    /\ get_param_count(ret.msg) = 2 /\ has_trailer(ret.msg)
    /\ HasAny(get_nth_param(ret.msg, 0).val, {58})
    /\ HasAny(get_nth_param(ret.msg, 1).val, {32})

(* C15: a line that does not begin with ':' has no source; otherwise the   *)
(* token between ':' and the first space is a Server name when it holds    *)
(* neither '@' nor '!', a Client with a username when '!' comes first and  *)
(* an '@' follows, a Client without one when '@' comes first; every other  *)
(* shape, and a NUL or CR in the token, makes parse return None.           *)
FirstIdx(s, set) ==
    IF HasAny(s, set)
    THEN CHOOSE i \in 1..Len(s) : s[i] \in set /\ \A j \in 1..(i - 1) : s[j] \notin set
    ELSE 0

Malformed == [ok |-> FALSE]
WellFormed(source) == [ok |-> TRUE, source |-> source]

ExpectedSource(token) ==
    LET d == FirstIdx(token, {64, 33}) IN
    IF HasAny(token, {0, 13}) THEN Malformed
    ELSE IF d = 0 THEN WellFormed(Server(token))
    ELSE LET nick == SliceTo(token, d - 1)
             after == SliceFrom(token, d)
         IN  IF token[d] = 64
             THEN IF HasAny(after, {64, 33}) THEN Malformed
                  ELSE WellFormed(Client(nick, NoUser, after))
             ELSE LET a == FirstIdx(after, {64}) IN
                  IF a = 0 THEN Malformed
                  ELSE IF HasAny(SliceTo(after, a - 1), {33}) THEN Malformed
                  ELSE IF HasAny(SliceFrom(after, a), {64, 33}) THEN Malformed
                  ELSE WellFormed(Client(nick, SomeUser(SliceTo(after, a - 1)),
                                         SliceFrom(after, a)))

PrefixToken(line) == FirstToken(SliceFrom(line, 1))

C15_SourceParsing ==
    Parsed
        => /\ call.line[1] # 58
                => /\ Source_parse(call.line, build.debug_assertions)
                          = [kind |-> "Some", source |-> NoSource,
                             rest |-> call.line]
                   /\ ret.kind = "Ok" => get_source(ret.msg) = NoSource
           /\ call.line[1] = 58
                => LET e == ExpectedSource(PrefixToken(call.line))
                       p == Source_parse(call.line, build.debug_assertions)
                   IN  /\ p.kind \in {"Some", "None"}
                       /\ p.kind = "Some" => (e.ok /\ p.source = e.source)
                       /\ ~e.ok => (p.kind = "None" /\ ret.kind = "None")
                       /\ ret.kind = "Ok"
                              => (e.ok /\ get_source(ret.msg) = e.source)

C15_Witness ==
    /\ Parsed /\ ret.kind = "Ok"
    /\ call.line[1] = 58
    /\ get_source(ret.msg)
           = [kind |-> "Client", nick |-> <<97>>,
              user |-> [some |-> TRUE, val |-> <<97>>], host |-> <<97>>]

(* C16: a Message assembled from k parameters reports get_param_count() =  *)
(* k, get_nth_param(i) = Some(p[i]) for i < k, and None for every i >= k.  *)
C16_ParamAccess ==
    (Assembled /\ ret.kind = "Ok")
        => LET k == Len(call.params) IN
           /\ get_param_count(ret.msg) = k
           /\ \A i \in 0..(k - 1) :
                  get_nth_param(ret.msg, i)
                      = [some |-> TRUE, val |-> call.params[i + 1]]
           /\ \A i \in k..(k + 8) : get_nth_param(ret.msg, i) = [some |-> FALSE]

C16_Witness ==
    /\ Assembled /\ ret.kind = "Ok"
    /\ Len(call.params) = 2
    /\ call.params[1] # call.params[2]
    /\ get_nth_param(ret.msg, 1).val = call.params[2]
    /\ ~get_nth_param(ret.msg, 2).some

(* C19: the Err that assemble returns is that of the first violation in    *)
(* the order server name, or nickname, username, hostname; then command;   *)
(* then the parameters by increasing index; and a call with a violation    *)
(* returns no Message.                                                     *)
ParamReasons(c, i) ==
    IF i = Len(c.params) /\ c.trailer
    THEN {"Invalid byte in param"}
    ELSE (IF c.params[i] = <<>> THEN {"Invalid empty param"} ELSE {})
         \cup (IF HasAny(c.params[i], {0, 13, 10, 32})
               THEN {"Invalid byte in param"} ELSE {})
         \cup (IF c.params[i] # <<>> /\ c.params[i][1] = 58
               THEN {"Invalid colon in param"} ELSE {})

FirstViolationReasons(c) ==
    LET fields == SourceFields(c.source) IN
    IF BadSource(c.source)
    THEN {fields[CHOOSE i \in 1..Len(fields) :
                     BadField(fields[i])
                     /\ \A j \in 1..(i - 1) : ~BadField(fields[j])].reason}
    ELSE IF BadCommand(c.command)
    THEN {IF c.command.kind = "Numeric" THEN "Invalid command number"
          ELSE "invalid character in command name"}
    ELSE IF \E i \in 1..Len(c.params) : BadParam(c, i)
    THEN ParamReasons(c, CHOOSE i \in 1..Len(c.params) :
                             BadParam(c, i)
                             /\ \A j \in 1..(i - 1) : ~BadParam(c, j))
    ELSE {}

C19_FailurePrecedence ==
    Assembled
        => /\ ret.kind = "Err" => ret.reason \in FirstViolationReasons(call)
           /\ FirstViolationReasons(call) # {} => ret.kind # "Ok"
           /\ (FirstViolationReasons(call) # {}
               /\ ~(build.debug_assertions /\ TrailerMisuse(call)))
                  => ret.kind = "Err"
           /\ ret.kind = "Err" => DOMAIN ret = {"kind", "reason"}

C19_Witness ==
    /\ Assembled
    /\ call.source.kind = "Client" /\ call.source.user.some
    /\ BadField(SourceFields(call.source)[2])
    /\ BadField(SourceFields(call.source)[3])
    /\ ~BadField(SourceFields(call.source)[1])
    /\ BadCommand(call.command)
    /\ call.params # <<>> /\ BadParam(call, 1)
    /\ ret = [kind |-> "Err", reason |-> "invalid character in client username"]

(* C20: when the source, the command and every parameter of a call         *)
(* validate, the bytes assemble writes are as many as the message_len it   *)
(* computed: the assertion that compares them does not fail.               *)
C20_LengthExact ==
    (/\ Assembled
     /\ ~BadSource(call.source)
     /\ ~BadCommand(call.command)
     /\ \A i \in 1..Len(call.params) : ~BadParam(call, i))
        => ~(ret.kind = "Panic" /\ ret.at = "message_len")

---------------------------------------------------------------------------
(* C17: a get whose cache miss is followed by an insert of v on the same   *)
(* path, and by no rehash, before its put_into_cache leaves the cache      *)
(* entry at v and returns v, whatever it read from the filesystem.         *)
C17_InsertNotClobbered ==
    \A t \in Tasks :
        (/\ task[t].pc = "done" /\ task[t].op = "get"
         /\ task[t].win_insert.some /\ ~task[t].win_rehash)
            => /\ task[t].ret = task[t].win_insert
               /\ task[t].after_put = [cached |-> TRUE,
                                       value |-> task[t].win_insert]

C17_Witness ==
    \E t \in Tasks :
        /\ task[t].pc = "done" /\ task[t].op = "get"
        /\ task[t].win_insert.some /\ ~task[t].win_rehash
        /\ task[t].result.some
        /\ task[t].result # task[t].win_insert
        /\ task[t].ret = task[t].win_insert

(* C18: after insert(p, d), rehash() and get(p) in sequence, with no other *)
(* operation in between, the get returns d.                                *)
C18_WriteThrough ==
    hist.stage = "got"
        => task[hist.task].ret = [some |-> TRUE, val |-> hist.datum]

---------------------------------------------------------------------------
(* C21: the raw bytes of every Message, from assemble or from parse, hold  *)
(* one CR and one LF, as their last two bytes, and no NUL.                 *)
OneLine(raw) ==
    /\ Len(raw) >= 2
    /\ raw[Len(raw) - 1] = 13 /\ raw[Len(raw)] = 10
    /\ \A i \in 1..(Len(raw) - 2) : raw[i] \notin {0, 13, 10}

C21_NoLineInjection ==
    \A r \in {ret, ret2} : r.kind = "Ok" => OneLine(get_raw(r.msg))

C21_Witness ==
    /\ pc = "reparsed" /\ call.op = "assemble"
    /\ call.source.kind = "Client" /\ call.trailer
    /\ ret2.kind = "Ok"
    /\ OneLine(get_raw(ret.msg)) /\ OneLine(get_raw(ret2.msg))

(* C22: the raw bytes of a Message that parse returns, without their CR    *)
(* LF, parse again to a Message with the same raw bytes, source, command,  *)
(* parameters and trailer flag.                                            *)
C22_ParseFixedPoint ==
    (Parsed /\ ret.kind = "Ok")
        => LET again == Message_parse(StripCrLf(get_raw(ret.msg)),
                                      build.debug_assertions)
           IN  /\ again.kind = "Ok"
               /\ get_raw(again.msg) = get_raw(ret.msg)
               /\ SameParts(again.msg, ret.msg)

---------------------------------------------------------------------------
C24_GetsAgree ==
    agreed.state # "void"
        => /\ \A t \in Tasks :
                  /\ (task[t].pc = "done" /\ task[t].op = "get")
                         => /\ agreed.state = "set"
                            /\ task[t].ret = agreed.value
                  /\ ~task[t].late
           /\ agreed.state = "set"
                  => \A p \in Paths :
                         cache[p] = [cached |-> TRUE, value |-> agreed.value]
           /\ agreed.state = "open" => \A p \in Paths : ~cache[p].cached

C24_Witness ==
    /\ agreed.state = "set"
    /\ \E t \in Tasks :
           /\ task[t].pc = "done" /\ task[t].op = "get"
           /\ ~task[t].stored
           /\ task[t].result # agreed.value
           /\ task[t].ret = agreed.value
    /\ \E t \in Tasks :
           /\ task[t].pc = "done" /\ task[t].op = "get"
           /\ task[t].stored /\ ~task[t].result.some

=============================================================================
